---- MODULE Spec2Model ----
(***************************************************************************)
(* A model of the hf_point_data client library.                            *)
(*                                                                         *)
(* The library has no state of its own across calls: every public          *)
(* function is one synchronous call.  The model is a state machine with    *)
(* one hub position ("idle"); from it a caller invokes one function with   *)
(* arguments drawn from bounded sets.  utils.check_inputs, utils.get_var_id *)
(* and utils.filter_min_num_obs are pure and modelled as operators applied *)
(* in one step.  get_data and get_metadata are modelled step by step at    *)
(* the points where they touch the outside (pin file, HTTP, SQLite,        *)
(* NetCDF files), so that the order of those interactions is observable.   *)
(*                                                                         *)
(* Conventions:                                                            *)
(*  - an optional value (a **kwargs key, a JSON field, a NaN-able cell)    *)
(*    is a sequence of length 0 (absent / NaN) or 1 (present);             *)
(*  - a date 'YYYY-MM-DD' is an integer in 1..MaxDate (the order of the    *)
(*    strings is the order of the integers);                               *)
(*  - a DataFrame is [columns |-> sequence of labels,                      *)
(*                    rows    |-> sequence of functions label -> cell];    *)
(*  - the outcome of a call is [exc |-> kind or "None", val |-> value];    *)
(*  - a text that is taken apart or put together (a query string) is the   *)
(*    sequence of its pieces: words, and the separators "&" and "=".       *)
(***************************************************************************)
EXTENDS Integers, Sequences, FiniteSets, TLC

VARIABLES
    pc,         \* position of the call in progress
    call,       \* the function called and its arguments
    ret,        \* what the call returned or raised
    run_remote, \* hf_point_data.py:75 / :137, not os.path.exists(HYDRODATA)
    conn,       \* the SQLite connection of the call: "none", "open", "closed"
    var_id,     \* local variable var_id of get_data (an optional)
    sites_df,   \* local variable sites_df / metadata_df (sequence of site rows)
    headers,    \* the headers _validate_user returned (an optional)
    login_response, \* what the login endpoint answered (an optional)
    data_response,  \* what the data endpoint answered (an optional)
    clock,      \* datetime.now() as _validate_user read it (an optional)
    q_params,   \* the query string of point_data_url (an optional)
    store,      \* what the storage backend held when it was read (an optional)
    log         \* the interactions with the outside, in order

vars == <<pc, call, ret, run_remote, conn, var_id, sites_df, headers,
          login_response, data_response, clock, q_params, store, log>>

----------------------------------------------------------------------------
(* Bounds of the model *)

\* dates are 1..MaxDate
MaxDate == 3

Dates == 1..MaxDate

\* HUC codes have 0..MaxHucLen digits
MaxHucLen == 12

\* a caller names up to MaxNetworks site networks
MaxNetworks == 2

\* a caller passes up to MaxOptions options to a query string
MaxOptions == 2

----------------------------------------------------------------------------
(* Optional values *)

Absent == <<>>
Some(v) == <<v>>
Has(o) == Len(o) = 1
Val(o) == o[1]

\* a missing cell of a DataFrame
NaN == <<>>

\* outcomes of a call
Raise(kind) == [exc |-> kind, val |-> Absent]
Return(v) == [exc |-> "None", val |-> v]

----------------------------------------------------------------------------
(* utils.check_inputs *)

SupportedTemporalResolutions == {"daily", "hourly", "instantaneous"}

SupportedVariables ==
    {"streamflow", "wtd", "swe", "precipitation", "temperature", "soil moisture",
     "latent heat flux", "sensible heat flux", "shortwave radiation",
     "longwave radiation", "vapor pressure deficit", "wind speed"}

SupportedAggregations ==
    {"average", "instantaneous", "total", "total, snow-adjusted",
     "start-of-day", "accumulated", "minimum", "maximum"}

SupportedDataSources == {"usgs_nwis", "usda_nrcs", "ameriflux"}

SupportedDepthLevels == {2, 4, 8, 20, 40}

\* check_inputs with the assert on data_source (line 46) left out
check_inputs_no_source_check(data_source, variable, temporal_resolution, aggregation, kwargs) ==
    IF temporal_resolution \notin SupportedTemporalResolutions THEN Raise("AssertionError")
    ELSE IF variable \notin SupportedVariables THEN Raise("AssertionError")
    ELSE IF aggregation \notin SupportedAggregations THEN Raise("AssertionError")
    ELSE IF variable = "soil moisture"
         THEN IF ~Has(kwargs.depth_level) THEN Raise("AssertionError")
              ELSE IF Val(kwargs.depth_level) \notin SupportedDepthLevels
                   THEN Raise("AssertionError")
                   ELSE Return(Absent)
         ELSE Return(Absent)

\* The asserts of check_inputs in their order; a failed assert raises
\* AssertionError, falling off the end returns None.
check_inputs(data_source, variable, temporal_resolution, aggregation, kwargs) ==
    IF temporal_resolution \notin SupportedTemporalResolutions THEN Raise("AssertionError")
    ELSE IF variable \notin SupportedVariables THEN Raise("AssertionError")
    ELSE IF aggregation \notin SupportedAggregations THEN Raise("AssertionError")
    ELSE IF data_source \notin SupportedDataSources THEN Raise("AssertionError")
    ELSE IF variable = "soil moisture"
         THEN IF ~Has(kwargs.depth_level) THEN Raise("AssertionError")
              ELSE IF Val(kwargs.depth_level) \notin SupportedDepthLevels
                   THEN Raise("AssertionError")
                   ELSE Return(Absent)
         ELSE Return(Absent)

----------------------------------------------------------------------------
(* utils.get_var_id *)

\* The rows of the table `variables`, as the test _get_var_id documents them.
\* depth_level is NULL (Absent) except for 'soil moisture'.
VarRow(id, ds, v, tr, agg, depth) ==
    [var_id |-> id, data_source |-> ds, variable |-> v,
     temporal_resolution |-> tr, aggregation |-> agg, depth_level |-> depth]

VariablesTable ==
    << VarRow(1, "usgs_nwis", "streamflow", "hourly", "average", Absent),
       VarRow(2, "usgs_nwis", "streamflow", "daily", "average", Absent),
       VarRow(3, "usgs_nwis", "wtd", "hourly", "average", Absent),
       VarRow(4, "usgs_nwis", "wtd", "daily", "average", Absent),
       VarRow(5, "usgs_nwis", "wtd", "instantaneous", "instantaneous", Absent),
       VarRow(6, "usda_nrcs", "swe", "daily", "start-of-day", Absent),
       VarRow(7, "usda_nrcs", "precipitation", "daily", "accumulated", Absent),
       VarRow(8, "usda_nrcs", "precipitation", "daily", "total", Absent),
       VarRow(9, "usda_nrcs", "precipitation", "daily", "total, snow-adjusted", Absent),
       VarRow(10, "usda_nrcs", "temperature", "daily", "minimum", Absent),
       VarRow(11, "usda_nrcs", "temperature", "daily", "maximum", Absent),
       VarRow(12, "usda_nrcs", "temperature", "daily", "average", Absent),
       VarRow(13, "usda_nrcs", "soil moisture", "daily", "start-of-day", Some(2)),
       VarRow(14, "usda_nrcs", "soil moisture", "daily", "start-of-day", Some(4)),
       VarRow(15, "usda_nrcs", "soil moisture", "daily", "start-of-day", Some(8)),
       VarRow(16, "usda_nrcs", "soil moisture", "daily", "start-of-day", Some(20)),
       VarRow(17, "usda_nrcs", "soil moisture", "daily", "start-of-day", Some(40)) >>

\* The SELECT of get_var_id: the rows matching the four fields, and the
\* depth level too when the query has the fifth condition.
SelectVarRows(data_source, variable, temporal_resolution, aggregation, with_depth, depth) ==
    SelectSeq(VariablesTable,
              LAMBDA r : /\ r.data_source = data_source
                         /\ r.variable = variable
                         /\ r.temporal_resolution = temporal_resolution
                         /\ r.aggregation = aggregation
                         /\ (with_depth => r.depth_level = Some(depth)))

\* kwargs['depth_level'] is read outside the try block (line 94): a missing
\* key raises KeyError.  Inside the try block any failure (no row: indexing
\* [0] of an empty result) becomes ValueError.
get_var_id(data_source, variable, temporal_resolution, aggregation, kwargs) ==
    IF variable = "soil moisture"
    THEN IF ~Has(kwargs.depth_level) THEN Raise("KeyError")
         ELSE LET result == SelectVarRows(data_source, variable, temporal_resolution,
                                          aggregation, TRUE, Val(kwargs.depth_level))
              IN  IF Len(result) = 0 THEN Raise("ValueError")
                  ELSE Return(result[1].var_id)
    ELSE LET result == SelectVarRows(data_source, variable, temporal_resolution,
                                     aggregation, FALSE, 0)
         IN  IF Len(result) = 0 THEN Raise("ValueError")
             ELSE Return(result[1].var_id)

----------------------------------------------------------------------------
(* utils.filter_min_num_obs *)

\* DataFrame.dropna(thresh=min_num_obs, axis=1): keep the columns that have
\* at least min_num_obs non-missing cells; every row is kept.
NotNaCount(df, c) == Cardinality({i \in 1..Len(df.rows) : df.rows[i][c] # NaN})

RestrictRow(row, columns) ==
    [c \in {columns[j] : j \in 1..Len(columns)} |-> row[c]]

filter_min_num_obs(df, min_num_obs) ==
    LET kept == SelectSeq(df.columns, LAMBDA c : NotNaCount(df, c) >= min_num_obs)
    IN  [columns |-> kept,
         rows |-> [i \in 1..Len(df.rows) |-> RestrictRow(df.rows[i], kept)]]

----------------------------------------------------------------------------
(* The catalog database read by utils.get_sites: tables sites and observations *)

\* a string of digits is the sequence of its digits
SiteRow(id, type, st, lat, lon, huc) ==
    [site_id |-> id, site_type |-> type, state |-> st,
     latitude |-> lat, longitude |-> lon, huc |-> huc]

SitesTable ==
    << SiteRow("01019000", "stream gauge", "ME", 45, -68, <<1, 0, 5, 0, 0, 0, 2>>),
       SiteRow("01027200", "stream gauge", "NH", 44, -71, <<0, 1, 0, 7, 0, 0, 0, 1>>),
       SiteRow("01029500", "stream gauge", "ME", 46, -69, <<1, 0, 2>>),
       SiteRow("434000070000001", "groundwater well", "ME", 43, -70, <<0, 1, 0, 6, 0, 0, 0, 1>>),
       SiteRow("425000071000001", "groundwater well", "NH", 42, -71,
               <<0, 1, 0, 7, 0, 0, 0, 6, 0, 1, 0, 2>>),
       SiteRow("301:CA:SNTL", "SNOTEL station", "CA", 41, -120,
               <<1, 8, 0, 2, 0, 0, 0, 2, 1, 5, 0>>),
       SiteRow("US-Ha1", "flux tower", "MA", 42, -72, <<0, 1, 0, 8, 0, 2, 0, 2>>) >>

\* the column doi of table sites: only flux towers have one
SiteDoi(site_id) ==
    IF site_id = "US-Ha1" THEN Some("10.17190/AMF/1246059") ELSE Absent

\* first/last_date_data_available hold the text 'None' (Absent) for a site
\* without data
ObsRow(id, v, first, last) ==
    [site_id |-> id, var_id |-> v,
     first_date_data_available |-> first, last_date_data_available |-> last]

ObservationsTable ==
    { ObsRow("01019000", 2, Some(1), Some(MaxDate)),
      ObsRow("01027200", 2, Some(2), Some(MaxDate)),
      ObsRow("01029500", 2, Absent, Absent),
      ObsRow("434000070000001", 5, Some(1), Some(MaxDate)),
      ObsRow("425000071000001", 5, Some(1), Some(2)),
      ObsRow("301:CA:SNTL", 6, Some(1), Some(1)) }

----------------------------------------------------------------------------
(* utils.get_network_site_list *)

network_options ==
    [usgs_nwis |-> [streamflow |-> {"camels", "gagesii_reference", "gagesii", "hcdn2009"},
                    wtd |-> {"climate_response_network"}]]

\* the files network_lists/{data_source}/{variable}/{network}.csv
NetworkCsv(network) ==
    CASE network = "camels" -> <<"01019000">>
      [] network = "gagesii_reference" -> <<"01019000", "01029500">>
      [] network = "gagesii" -> <<"01019000", "01027200", "01029500">>
      [] network = "hcdn2009" -> <<"01027200">>
      [] network = "climate_response_network" -> <<"434000070000001">>

NetworkRegistered(data_source, variable, network) ==
    /\ data_source \in DOMAIN network_options
    /\ variable \in DOMAIN network_options[data_source]
    /\ network \in network_options[data_source][variable]

SeqToSet(s) == {s[i] : i \in 1..Len(s)}

\* site_list += list(df['site_id']), for every network in turn
RECURSIVE NetworkSites(_)
NetworkSites(site_networks) ==
    IF Len(site_networks) = 0 THEN <<>>
    ELSE NetworkCsv(Head(site_networks)) \o NetworkSites(Tail(site_networks))

\* list(set(l)): the elements of l once each, in an order the hashing decides
ListOfSet(l) ==
    LET S == SeqToSet(l)
    IN  {u \in [1..Cardinality(S) -> S] : \A i, j \in 1..Cardinality(S) : u[i] = u[j] => i = j}

\* the concatenated lists returned as they are
get_network_site_list_keeping_duplicates(data_source, variable, site_networks) ==
    IF \E i \in 1..Len(site_networks) :
           ~NetworkRegistered(data_source, variable, site_networks[i])
    THEN {Raise("ValueError")}
    ELSE {Return(NetworkSites(site_networks))}

\* any failure inside the loop (the assert, a KeyError of network_options)
\* is re-raised as ValueError; the result is list(set(site_list)): the set
\* of the outcomes a call can have
get_network_site_list(data_source, variable, site_networks) ==
    IF \E i \in 1..Len(site_networks) :
           ~NetworkRegistered(data_source, variable, site_networks[i])
    THEN {Raise("ValueError")}
    ELSE {Return(u) : u \in ListOfSet(NetworkSites(site_networks))}

----------------------------------------------------------------------------
(* utils.get_sites *)

ObsOf(site_id, v) == {o \in ObservationsTable : o.site_id = site_id /\ o.var_id = v}

\* the WHERE clause without the condition on date_end
SiteMatchesWithoutDateEnd(s, o, kwargs, network_site_list) ==
    /\ Has(o.first_date_data_available)
    /\ (Has(kwargs.date_start) =>
            Val(o.last_date_data_available) >= Val(kwargs.date_start))
    /\ (Has(kwargs.latitude_range) =>
            /\ s.latitude >= Val(kwargs.latitude_range)[1]
            /\ s.latitude <= Val(kwargs.latitude_range)[2])
    /\ (Has(kwargs.longitude_range) =>
            /\ s.longitude >= Val(kwargs.longitude_range)[1]
            /\ s.longitude <= Val(kwargs.longitude_range)[2])
    /\ (Has(kwargs.site_ids) => s.site_id \in SeqToSet(Val(kwargs.site_ids)))
    /\ (Has(kwargs.state) => s.state = Val(kwargs.state))
    /\ (Has(kwargs.site_networks) => s.site_id \in SeqToSet(network_site_list))

\* the WHERE clause of the query, for site row s joined with observation row o
SiteMatches(s, o, kwargs, network_site_list) ==
    /\ Has(o.first_date_data_available)
    /\ (Has(kwargs.date_start) =>
            Val(o.last_date_data_available) >= Val(kwargs.date_start))
    /\ (Has(kwargs.date_end) =>
            Val(o.first_date_data_available) <= Val(kwargs.date_end))
    /\ (Has(kwargs.latitude_range) =>
            /\ s.latitude >= Val(kwargs.latitude_range)[1]
            /\ s.latitude <= Val(kwargs.latitude_range)[2])
    /\ (Has(kwargs.longitude_range) =>
            /\ s.longitude >= Val(kwargs.longitude_range)[1]
            /\ s.longitude <= Val(kwargs.longitude_range)[2])
    /\ (Has(kwargs.site_ids) => s.site_id \in SeqToSet(Val(kwargs.site_ids)))
    /\ (Has(kwargs.state) => s.state = Val(kwargs.state))
    /\ (Has(kwargs.site_networks) => s.site_id \in SeqToSet(network_site_list))

\* the rows of the query for a resolved var_id, in table order
QuerySites(v, kwargs, network_site_list) ==
    SelectSeq(SitesTable,
              LAMBDA s : \E o \in ObsOf(s.site_id, v) :
                             SiteMatches(s, o, kwargs, network_site_list))

\* the order of the network site list does not change the rows of the query
get_sites(data_source, variable, temporal_resolution, aggregation, kwargs) ==
    LET v == get_var_id(data_source, variable, temporal_resolution, aggregation, kwargs)
        n == IF Has(kwargs.site_networks)
             THEN CHOOSE o \in get_network_site_list(data_source, variable,
                                                     Val(kwargs.site_networks)) : TRUE
             ELSE Return(<<>>)
    IN  IF v.exc # "None" THEN v
        ELSE IF n.exc # "None" THEN n
        ELSE Return(QuerySites(v.val, kwargs, n.val))

SiteIds(df) == [i \in 1..Len(df) |-> df[i].site_id]

----------------------------------------------------------------------------
(* utils.get_data_nc with utils.convert_to_pandas *)

\* the window test of lines 484-491: both bounds inclusive, each optional
InWindow(d, kwargs) ==
    /\ (Has(kwargs.date_start) => d >= Val(kwargs.date_start))
    /\ (Has(kwargs.date_end) => d <= Val(kwargs.date_end))

AllDates == [d \in 1..MaxDate |-> d]

\* the dates the catalog says a site has data of a variable for
Available(site, v, d) ==
    \E o \in ObservationsTable :
        /\ o.site_id = site /\ o.var_id = v
        /\ Has(o.first_date_data_available)
        /\ Val(o.first_date_data_available) <= d
        /\ d <= Val(o.last_date_data_available)

\* what the per-site files may hold: for every site of the list a value or
\* NaN at every date, and NaN outside the dates the catalog announces
NcFiles(site_list, v) ==
    {files \in [SeqToSet(site_list) -> [Dates -> {NaN, Some(1)}]] :
        \A s \in SeqToSet(site_list), d \in Dates :
            ~Available(s, v, d) => files[s][d] = NaN}

\* the table without its column 'date'
convert_to_pandas_without_date(site_list, dates, files) ==
    [columns |-> site_list,
     rows |-> [i \in 1..Len(dates) |-> [c \in SeqToSet(site_list) |-> files[c][dates[i]]]]]

\* convert_to_pandas: DataFrame(data.T, columns=sites) has one row per date
\* and one column per site; the column 'date' is added and moved first
convert_to_pandas(site_list, dates, files) ==
    [columns |-> <<"date">> \o site_list,
     rows |-> [i \in 1..Len(dates) |->
                  [c \in {"date"} \cup SeqToSet(site_list) |->
                      IF c = "date" THEN Some(dates[i]) ELSE files[c][dates[i]]]]]

\* the sites counted over their whole record, the rows cut to the window
get_data_nc_counting_whole_record(site_list, v, kwargs, files) ==
    LET dates == SelectSeq(AllDates, LAMBDA d : InWindow(d, kwargs))
        data_df == convert_to_pandas(site_list, dates, files)
        whole_df == convert_to_pandas(site_list, AllDates, files)
        kept == filter_min_num_obs(whole_df, Val(kwargs.min_num_obs)).columns
    IN  IF Has(kwargs.min_num_obs)
        THEN [columns |-> kept,
              rows |-> [i \in 1..Len(data_df.rows) |-> RestrictRow(data_df.rows[i], kept)]]
        ELSE data_df

\* lines 483-491 cut every site's series to the window, then line 506
\* builds the table and lines 507-510 filter it when min_num_obs is given
get_data_nc(site_list, v, kwargs, files) ==
    LET dates == SelectSeq(AllDates, LAMBDA d : InWindow(d, kwargs))
        data_df == convert_to_pandas(site_list, dates, files)
    IN  IF Has(kwargs.min_num_obs)
        THEN filter_min_num_obs(data_df, Val(kwargs.min_num_obs))
        ELSE data_df

----------------------------------------------------------------------------
(* utils.get_data_sql *)

\* the sites that have records in wtd_discrete_data
WellIds == SelectSeq(SiteIds(SitesTable),
                     LAMBDA s : \E o \in ObservationsTable : o.site_id = s /\ o.var_id = 5)

\* every possible key (site, date) of the table, in table order
WtdKeys ==
    [k \in 1..(Len(WellIds) * MaxDate) |->
        [site_id |-> WellIds[((k - 1) \div MaxDate) + 1], date |-> ((k - 1) % MaxDate) + 1]]

\* what the table may hold: any set of records at dates the catalog announces
WtdTables == SUBSET {r \in SeqToSet(WtdKeys) : Available(r.site_id, 5, r.date)}

\* the inner SELECT: the sites with at least min_num_obs rows in the window
SitesWithMinObs(table, kwargs, min_num_obs) ==
    {s \in SeqToSet(WellIds) :
        LET num_obs == Cardinality({r \in table : r.site_id = s /\ InWindow(r.date, kwargs)})
        IN  num_obs >= min_num_obs /\ num_obs > 0}

WtdRecord(r) ==
    [site_id |-> Some(r.site_id), date |-> Some(r.date),
     wtd |-> Some(1), pumping_status |-> Some("1")]

\* the arguments are conn (the table it reads), var_id and kwargs: the
\* candidate site list is not among them (line 114)
get_data_sql(table, v, kwargs) ==
    LET min_num_obs == IF Has(kwargs.min_num_obs) THEN Val(kwargs.min_num_obs) ELSE 1
        c == SitesWithMinObs(table, kwargs, min_num_obs)
        keys == SelectSeq(WtdKeys, LAMBDA r : /\ r \in table
                                              /\ r.site_id \in c
                                              /\ InWindow(r.date, kwargs))
    IN  [columns |-> <<"site_id", "date", "wtd", "pumping_status">>,
         rows |-> [i \in 1..Len(keys) |-> WtdRecord(keys[i])]]

----------------------------------------------------------------------------
(* utils.clean_huc, on a string of digits *)

\* the leading zero added to codes of 7 digits only
clean_huc_padding_seven_only(huc) ==
    LET padded == IF Len(huc) = 7 THEN <<0>> \o huc ELSE huc
    IN  IF Len(huc) < 7 THEN Return(<<>>) ELSE Return(SubSeq(padded, 1, 8))

\* cleaned_huc is assigned in the first branch (fewer than 7 digits) and in
\* the last test (8 digits or more after padding); returning it unassigned
\* is UnboundLocalError
clean_huc(huc) ==
    LET padded == IF Len(huc) >= 7 /\ Len(huc) \in {7, 11} THEN <<0>> \o huc ELSE huc
    IN  IF Len(padded) >= 8 THEN Return(SubSeq(padded, 1, 8))
        ELSE IF Len(huc) < 7 THEN Return(<<>>)
        ELSE Raise("UnboundLocalError")

----------------------------------------------------------------------------
(* hf_point_data.get_citations *)

\* lines 449-455: SELECT site_id, doi FROM sites WHERE site_id IN (...)
SelectDois(site_ids) ==
    LET found == SelectSeq(SitesTable, LAMBDA s : s.site_id \in SeqToSet(site_ids))
    IN  [columns |-> <<"site_id", "doi">>,
         rows |-> [i \in 1..Len(found) |->
                      [site_id |-> Some(found[i].site_id), doi |-> SiteDoi(found[i].site_id)]]]

\* the failed assert of line 410 is re-raised as ValueError; the test of
\* line 445 stands after the if/elif chain, not inside its ameriflux branch;
\* without site_ids the function ends without a return statement (None,
\* Absent here; a dataframe df is Some(df))
get_citations(data_source, site_ids) ==
    IF data_source \notin {"usgs_nwis", "usda_nrcs", "ameriflux"} THEN Raise("ValueError")
    ELSE IF Has(site_ids) THEN Return(Some(SelectDois(Val(site_ids))))
    ELSE Return(Absent)

----------------------------------------------------------------------------
(* The remote API: hf_point_data._validate_user, ._get_data_from_api *)

\* ~/.hydrodata/pin.json as get_registered_api_pin finds it
PinFiles ==
    {[exists |-> FALSE, json |-> FALSE, email |-> Absent, pin |-> Absent],
     [exists |-> TRUE, json |-> FALSE, email |-> Absent, pin |-> Absent]}
    \cup {[exists |-> TRUE, json |-> TRUE, email |-> e, pin |-> p] :
              e \in {Absent, Some("dummy@email.com")}, p \in {Absent, Some("1234")}}

\* get_registered_api_pin: ValueError for a missing or unreadable file,
\* else the pair (email, pin) as parsed_contents.get returns them
get_registered_api_pin(pin_file) ==
    IF ~pin_file.exists THEN Raise("ValueError")
    ELSE IF ~pin_file.json THEN Raise("ValueError")
    ELSE Return(<<pin_file.email, pin_file.pin>>)

\* answers of requests.get to the login call: a timeout, or a response with
\* a status code and the JSON fields _validate_user reads
LoginResponses ==
    {[timeout |-> TRUE, status_code |-> 0, expires |-> Absent, jwt_token |-> Absent]}
    \cup {[timeout |-> FALSE, status_code |-> c, expires |-> Absent, jwt_token |-> Absent] :
              c \in {401, 500}}
    \cup {[timeout |-> FALSE, status_code |-> 200, expires |-> e, jwt_token |-> t] :
              e \in {Absent} \cup {Some(d) : d \in Dates},
              t \in {Absent, Some("jwt_a"), Some("jwt_b")}}

\* _validate_user with the comparison of now and expires (lines 234-242)
\* left out
validate_user_accepting_expired(response, now) ==
    IF response.timeout THEN Raise("ValueError")
    ELSE IF response.status_code # 200 THEN Raise("ValueError")
    ELSE IF ~Has(response.jwt_token) THEN Raise("KeyError")
    ELSE Return([Authorization |-> <<"Bearer", Val(response.jwt_token)>>])

\* lines 226-246, after the response has arrived at time now.  A timeout
\* is caught by _get_data_from_api (line 216) and re-raised as ValueError
validate_user(response, now) ==
    IF response.timeout THEN Raise("ValueError")
    ELSE IF response.status_code # 200 THEN Raise("ValueError")
    ELSE IF Has(response.expires) /\ now > Val(response.expires) THEN Raise("ValueError")
    ELSE IF ~Has(response.jwt_token) THEN Raise("KeyError")
    ELSE Return([Authorization |-> <<"Bearer", Val(response.jwt_token)>>])

\* DataFrame.to_pickle and pd.read_pickle
Pickle(df) == [fmt |-> "pickle", obj |-> df]

NotAPickle == [fmt |-> "text", obj |-> Absent]

read_pickle(content) ==
    IF content.fmt = "pickle" THEN Return(content.obj) ELSE Raise("UnpicklingError")

PayloadRow(h, a, b, c) ==
    [k \in {"headers", "0", "1", "2"} |->
        Some(CASE k = "headers" -> h [] k = "0" -> a [] k = "1" -> b [] k = "2" -> c)]

\* the DataFrame of the test's MockResponse
MockPayload ==
    [columns |-> <<"headers", "0", "1", "2">>,
     rows |-> << PayloadRow("site_id", "01019000", "01027200", "01029500"),
                 PayloadRow("2020-01-01", "18.39500", "4.92420", "35.09200"),
                 PayloadRow("2020-01-02", "18.36670", "4.64120", "33.67700") >>]

\* another payload, whose first site is another one
OtherPayload ==
    [columns |-> <<"headers", "0", "1", "2">>,
     rows |-> << PayloadRow("site_id", "01027200", "01029500", "01019000"),
                 PayloadRow("2020-01-01", "4.92420", "35.09200", "18.39500") >>]

Payloads == {MockPayload, OtherPayload}

DataResponses ==
    {[timeout |-> TRUE, status_code |-> 0, content |-> NotAPickle]}
    \cup {[timeout |-> FALSE, status_code |-> c, content |-> NotAPickle] : c \in {404, 500}}
    \cup {[timeout |-> FALSE, status_code |-> 200, content |-> b] :
              b \in {Pickle(df) : df \in Payloads} \cup {NotAPickle}}

\* _get_data_from_api returning the dataframe without its first row
api_result_dropping_first_row(response) ==
    IF response.timeout THEN Raise("ValueError")
    ELSE IF response.status_code # 200 THEN Raise("ValueError")
    ELSE LET r == read_pickle(response.content)
         IN  IF r.exc # "None" THEN r
             ELSE Return([columns |-> r.val.columns, rows |-> Tail(r.val.rows)])

\* lines 210-220, after the data response has arrived
api_result(response) ==
    IF response.timeout THEN Raise("ValueError")
    ELSE IF response.status_code # 200 THEN Raise("ValueError")
    ELSE read_pickle(response.content)

----------------------------------------------------------------------------
(* The arguments callers pass *)

SiteFilter(lat, lon, ids, st, networks) ==
    [latitude_range |-> lat, longitude_range |-> lon, site_ids |-> ids,
     state |-> st, site_networks |-> networks]

NoFilter == SiteFilter(Absent, Absent, Absent, Absent, Absent)

Kwargs(depth, ds, de, f, mno) ==
    [depth_level |-> depth, date_start |-> ds, date_end |-> de,
     latitude_range |-> f.latitude_range, longitude_range |-> f.longitude_range,
     site_ids |-> f.site_ids, state |-> f.state, site_networks |-> f.site_networks,
     min_num_obs |-> mno]

\* for the pure functions: every supported name and a misspelt one
TemporalResolutionInputs == SupportedTemporalResolutions \cup {"monthly"}
VariableInputs == SupportedVariables \cup {"steamflow"}
AggregationInputs == SupportedAggregations \cup {"median"}
DataSourceInputs == SupportedDataSources \cup {"noaa"}
DepthLevelInputs == {Absent} \cup {Some(d) : d \in SupportedDepthLevels \cup {3}}

Request(ds, v, tr, agg, depth) ==
    [data_source |-> ds, variable |-> v, temporal_resolution |-> tr,
     aggregation |-> agg, depth_level |-> depth]

\* for get_data and get_metadata: an array-backed variable, the SQL-backed
\* one, a misspelt name, an unsupported combination, soil moisture without
\* and with depth_level, a variable no site of the catalog observes, and a
\* second array-backed variable
Requests ==
    { Request("usgs_nwis", "streamflow", "daily", "average", Absent),
      Request("usgs_nwis", "wtd", "instantaneous", "instantaneous", Absent),
      Request("usgs_nwis", "steamflow", "daily", "average", Absent),
      Request("usgs_nwis", "streamflow", "daily", "total", Absent),
      Request("usda_nrcs", "soil moisture", "daily", "start-of-day", Absent),
      Request("usda_nrcs", "soil moisture", "daily", "start-of-day", Some(2)),
      Request("usgs_nwis", "streamflow", "hourly", "average", Absent),
      Request("usda_nrcs", "swe", "daily", "start-of-day", Absent) }

DateInputs == {Absent} \cup {Some(d) : d \in Dates}

\* the site filters of a request: none, a state with and without sites, a
\* list of site ids, a bounding box, overlapping networks, a network of
\* another variable
SiteFilters ==
    { NoFilter,
      SiteFilter(Absent, Absent, Absent, Some("ME"), Absent),
      SiteFilter(Absent, Absent, Absent, Some("TX"), Absent),
      SiteFilter(Absent, Absent, Some(<<"01027200", "425000071000001">>), Absent, Absent),
      SiteFilter(Some(<<43, 45>>), Some(<<-70, -68>>), Absent, Absent, Absent),
      SiteFilter(Absent, Absent, Absent, Absent, Some(<<"camels", "gagesii_reference">>)),
      SiteFilter(Absent, Absent, Absent, Absent, Some(<<"climate_response_network">>)) }

MinNumObsInputs == {Absent} \cup {Some(n) : n \in Dates}

\* the tables filter_min_num_obs is called with directly: the fixture of
\* xxtest_filter_min_num_obs (one row per site, one column per date) and
\* every two-site two-date table of that shape
FixtureRow(site, d1, d2, d3) ==
    [site_id |-> Some(site), date1 |-> d1, date2 |-> d2, date3 |-> d3]

FixtureTable ==
    [columns |-> <<"site_id", "date1", "date2", "date3">>,
     rows |-> << FixtureRow("101", Some(1), NaN, NaN),
                 FixtureRow("102", Some(5), Some(4), Some(9)),
                 FixtureRow("103", Some(3), Some(2), Some(2)),
                 FixtureRow("104", Some(4), Some(9), NaN),
                 FixtureRow("105", Some(8), Some(4), Some(9)) >>]

SmallTables ==
    {[columns |-> <<"site_id", "date1", "date2">>,
      rows |-> << [site_id |-> Some("101"), date1 |-> m[1], date2 |-> m[2]],
                  [site_id |-> Some("102"), date1 |-> m[3], date2 |-> m[4]] >>] :
        m \in [1..4 -> {NaN, Some(1)}]}

FilterTables == {FixtureTable} \cup SmallTables

\* for clean_huc: strings of digits of every length up to MaxHucLen
HucInputs ==
    {[i \in 1..n |-> (i * k) % 10] : n \in 0..MaxHucLen, k \in {0, 1, 3}}

\* for get_network_site_list: every list of up to MaxNetworks network names,
\* registered or not, for a data source and a variable with and without
\* networks
NetworkNames ==
    {"camels", "gagesii_reference", "gagesii", "hcdn2009",
     "climate_response_network", "unknown_network"}

NetworkInputs == UNION {[1..k -> NetworkNames] : k \in 0..MaxNetworks}

\* for get_citations: no list of sites, a flux tower, a stream gauge and a
\* flux tower, a site the catalog does not hold
CitationSiteIds ==
    {Absent, Some(<<"US-Ha1">>), Some(<<"01019000", "US-Ha1">>), Some(<<"US-Zzz">>)}

----------------------------------------------------------------------------
(* The query string of a remote request: hf_point_data.                    *)
(* _convert_params_to_string_dict and ._construct_string_from_qparams      *)

\* a Python value: its type and the pieces of its text (of its elements,
\* for a list or a tuple)
PyNone == [t |-> "none", v |-> <<>>]
PyStr(s) == [t |-> "str", v |-> s]
PyInt(n) == [t |-> "int", v |-> <<ToString(n)>>]
PyList(l) == [t |-> "list", v |-> l]
PyTuple(l) == [t |-> "tuple", v |-> [i \in 1..Len(l) |-> ToString(l[i])]]

\* sep.join(parts)
RECURSIVE Join(_, _)
Join(parts, sep) ==
    IF Len(parts) = 0 THEN <<>>
    ELSE IF Len(parts) = 1 THEN parts[1]
    ELSE parts[1] \o sep \o Join(Tail(parts), sep)

\* str(value), which is also what an f-string writes: 'None' for None, the
\* text of a string, the digits of an integer, "['a', 'b']" for a list of
\* strings, "(1, 2)" for a tuple of numbers
str(value) ==
    CASE value.t = "none" -> <<"None">>
      [] value.t = "str" -> value.v
      [] value.t = "int" -> value.v
      [] value.t = "list" ->
             <<"[">> \o Join([i \in 1..Len(value.v) |-> <<"'", value.v[i], "'">>], <<", ">>)
                   \o <<"]">>
      [] value.t = "tuple" ->
             <<"(">> \o Join([i \in 1..Len(value.v) |-> <<value.v[i]>>], <<", ">>) \o <<")">>

\* an options dictionary is the sequence of its items, in insertion order
Item(name, value) == [name |-> name, value |-> value]

\* lines 288-306: the keys whose value is replaced by str(value) when it
\* is not a string already
StringifiedKeys ==
    {"depth_level", "latitude_range", "longitude_range", "site_ids",
     "min_num_obs", "site_networks"}

convert_params_to_string_dict(options) ==
    [i \in 1..Len(options) |->
        IF options[i].name \in StringifiedKeys /\ options[i].value.t # "str"
        THEN Item(options[i].name, PyStr(str(options[i].value)))
        ELSE options[i]]

\* d[name] = value: in place for a key the dictionary has, else at the end
DictSet(d, name, value) ==
    IF \E i \in 1..Len(d) : d[i].name = name
    THEN [i \in 1..Len(d) |-> IF d[i].name = name THEN Item(name, value) ELSE d[i]]
    ELSE Append(d, Item(name, value))

\* lines 377-388
construct_string_from_qparams(data_type, data_source, variable, temporal_resolution, aggregation, options) ==
    LET q1 == DictSet(options, "data_type", PyStr(<<data_type>>))
        q2 == DictSet(q1, "data_source", PyStr(<<data_source>>))
        q3 == DictSet(q2, "variable", PyStr(<<variable>>))
        q4 == DictSet(q3, "temporal_resolution", PyStr(<<temporal_resolution>>))
        qparam_values == DictSet(q4, "aggregation", PyStr(<<aggregation>>))
        kept == SelectSeq(qparam_values, LAMBDA item : item.value.t # "none")
        string_parts == [i \in 1..Len(kept) |-> <<kept[i].name, "=">> \o str(kept[i].value)]
    IN  Join(string_parts, <<"&">>)

\* lines 78-79 and 140-141: the data_type each function passes
DataTypeOf(fn) == IF fn = "get_data" THEN "data_only" ELSE "metadata_only"

\* lines 199-204 of _get_data_from_api
get_q_params(data_type, data_source, variable, temporal_resolution, aggregation, options) ==
    construct_string_from_qparams(data_type, data_source, variable, temporal_resolution,
                                  aggregation, convert_params_to_string_dict(options))

\* the dictionary **kwargs of a call: the keys that were passed, dates as
\* the text of the date
OptionsOf(kwargs) ==
    (IF Has(kwargs.depth_level)
        THEN <<Item("depth_level", PyInt(Val(kwargs.depth_level)))>> ELSE <<>>)
    \o (IF Has(kwargs.date_start)
        THEN <<Item("date_start", PyStr(<<ToString(Val(kwargs.date_start))>>))>> ELSE <<>>)
    \o (IF Has(kwargs.date_end)
        THEN <<Item("date_end", PyStr(<<ToString(Val(kwargs.date_end))>>))>> ELSE <<>>)
    \o (IF Has(kwargs.latitude_range)
        THEN <<Item("latitude_range", PyTuple(Val(kwargs.latitude_range)))>> ELSE <<>>)
    \o (IF Has(kwargs.longitude_range)
        THEN <<Item("longitude_range", PyTuple(Val(kwargs.longitude_range)))>> ELSE <<>>)
    \o (IF Has(kwargs.site_ids)
        THEN <<Item("site_ids", PyList(Val(kwargs.site_ids)))>> ELSE <<>>)
    \o (IF Has(kwargs.state)
        THEN <<Item("state", PyStr(<<Val(kwargs.state)>>))>> ELSE <<>>)
    \o (IF Has(kwargs.site_networks)
        THEN <<Item("site_networks", PyList(Val(kwargs.site_networks)))>> ELSE <<>>)
    \o (IF Has(kwargs.min_num_obs)
        THEN <<Item("min_num_obs", PyInt(Val(kwargs.min_num_obs)))>> ELSE <<>>)

\* the options a query string is built from directly: a state, a state
\* whose text holds the separators, a date, a number as integer and as
\* text, a list of sites, a key the function sets itself, and None values
OptionItems ==
    { Item("state", PyStr(<<"ME">>)),
      Item("state", PyStr(<<"ME", "&", "min_num_obs", "=", "1">>)),
      Item("state", PyNone),
      Item("date_start", PyStr(<<"2020-01-01">>)),
      Item("min_num_obs", PyInt(1)),
      Item("min_num_obs", PyStr(<<"1">>)),
      Item("min_num_obs", PyNone),
      Item("site_ids", PyList(<<"01019000", "US-Ha1">>)),
      Item("data_type", PyStr(<<"metadata_only">>)) }

\* a dictionary has every key once
OptionDicts ==
    {d \in UNION {[1..k -> OptionItems] : k \in 0..MaxOptions} :
        \A i, j \in 1..Len(d) : d[i].name = d[j].name => i = j}

----------------------------------------------------------------------------
(* The state machine *)

Ev(op, target, hdrs) == [op |-> op, target |-> target, headers |-> hdrs]

\* the login call made twice
LoginEventsWithRefresh ==
    <<Ev("http", "api_pins", Absent), Ev("http", "api_pins", Absent)>>

\* line 226: requests.get(url_security, headers=None, timeout=15), once
LoginEvents == <<Ev("http", "api_pins", Absent)>>

\* the data call made again after a timeout or a non-200 response
DataEventsWithRetry(hdrs, response) ==
    IF response.timeout \/ response.status_code # 200
    THEN <<Ev("http", "point-data-app", hdrs), Ev("http", "point-data-app", hdrs)>>
    ELSE <<Ev("http", "point-data-app", hdrs)>>

\* line 210: requests.get(point_data_url, headers=headers, timeout=180), once
DataEvents(hdrs, response) == <<Ev("http", "point-data-app", hdrs)>>

Init ==
    /\ pc = "idle"
    /\ call = [fn |-> "none"]
    /\ ret = Return(Absent)
    /\ run_remote = FALSE
    /\ conn = "none"
    /\ var_id = Absent
    /\ sites_df = <<>>
    /\ headers = Absent
    /\ login_response = Absent
    /\ data_response = Absent
    /\ clock = Absent
    /\ q_params = Absent
    /\ store = Absent
    /\ log = <<>>

ApiCall(fn, r, kwargs) ==
    [fn |-> fn, data_source |-> r.data_source, variable |-> r.variable,
     temporal_resolution |-> r.temporal_resolution, aggregation |-> r.aggregation,
     kwargs |-> kwargs]

local_vars == <<conn, var_id, sites_df, store>>
remote_vars == <<headers, login_response, data_response, clock, q_params>>

(* the pure functions of utils, called directly *)

CheckInputsCall ==
    /\ pc = "idle"
    /\ \E ds \in DataSourceInputs, v \in VariableInputs, tr \in TemporalResolutionInputs,
          agg \in AggregationInputs, depth \in DepthLevelInputs :
         LET kwargs == Kwargs(depth, Absent, Absent, NoFilter, Absent)
         IN  /\ call' = ApiCall("check_inputs", Request(ds, v, tr, agg, depth), kwargs)
             /\ ret' = check_inputs(ds, v, tr, agg, kwargs)
    /\ pc' = "done"
    /\ UNCHANGED <<run_remote, local_vars, remote_vars, log>>

GetVarIdCall ==
    /\ pc = "idle"
    /\ \E ds \in DataSourceInputs, v \in VariableInputs, tr \in TemporalResolutionInputs,
          agg \in AggregationInputs, depth \in DepthLevelInputs :
         LET kwargs == Kwargs(depth, Absent, Absent, NoFilter, Absent)
         IN  /\ call' = ApiCall("get_var_id", Request(ds, v, tr, agg, depth), kwargs)
             /\ ret' = get_var_id(ds, v, tr, agg, kwargs)
    /\ pc' = "done"
    /\ UNCHANGED <<run_remote, local_vars, remote_vars, log>>

FilterMinNumObsCall ==
    /\ pc = "idle"
    /\ \E df \in FilterTables, threshold \in 1..(MaxDate + 1) :
         /\ call' = [fn |-> "filter_min_num_obs", df |-> df, min_num_obs |-> threshold]
         /\ ret' = Return(filter_min_num_obs(df, threshold))
    /\ pc' = "done"
    /\ UNCHANGED <<run_remote, local_vars, remote_vars, log>>

\* utils.clean_huc
CleanHucCall ==
    /\ pc = "idle"
    /\ \E huc \in HucInputs :
         /\ call' = [fn |-> "clean_huc", huc |-> huc]
         /\ ret' = clean_huc(huc)
    /\ pc' = "done"
    /\ UNCHANGED <<run_remote, local_vars, remote_vars, log>>

\* utils.get_network_site_list: reads one csv file per network, in order,
\* up to the first network that is not registered
GetNetworkSiteListCall ==
    /\ pc = "idle"
    /\ \E ds \in {"usgs_nwis", "usda_nrcs"}, v \in {"streamflow", "wtd", "swe"},
          site_networks \in NetworkInputs :
         /\ call' = [fn |-> "get_network_site_list", data_source |-> ds, variable |-> v,
                      site_networks |-> site_networks]
         /\ \E o \in get_network_site_list(ds, v, site_networks) : ret' = o
         /\ log' = log \o
                [i \in 1..Cardinality({j \in 1..Len(site_networks) :
                                          \A k \in 1..j :
                                              NetworkRegistered(ds, v, site_networks[k])}) |->
                    Ev("read_csv", site_networks[i], Absent)]
    /\ pc' = "done"
    /\ UNCHANGED <<run_remote, local_vars, remote_vars>>

\* hf_point_data.get_registered_api_pin
GetRegisteredApiPinCall ==
    /\ pc = "idle"
    /\ \E pin_file \in PinFiles :
         /\ call' = [fn |-> "get_registered_api_pin"]
         /\ store' = Some(pin_file)
         /\ ret' = get_registered_api_pin(pin_file)
    /\ log' = Append(log, Ev("read", "pin.json", Absent))
    /\ pc' = "done"
    /\ UNCHANGED <<run_remote, conn, var_id, sites_df, remote_vars>>

\* hf_point_data.get_citations: the connection of line 447 is opened when
\* site_ids is given, and no statement closes it
GetCitationsCall ==
    /\ pc = "idle"
    /\ \E ds \in DataSourceInputs, site_ids \in CitationSiteIds :
         LET r == get_citations(ds, site_ids)
             queried == r.exc = "None" /\ Has(site_ids)
         IN  /\ call' = [fn |-> "get_citations", data_source |-> ds, site_ids |-> site_ids]
             /\ ret' = r
             /\ conn' = IF queried THEN "open" ELSE conn
             /\ log' = IF queried
                       THEN log \o <<Ev("connect", "point_obs.sqlite", Absent),
                                     Ev("sql", "sites", Absent)>>
                       ELSE log
    /\ run_remote' = FALSE
    /\ pc' = "done"
    /\ UNCHANGED <<var_id, sites_df, store, remote_vars>>

\* lines 199-204 of hf_point_data._get_data_from_api, as get_data
\* (data_only) and get_metadata (metadata_only) reach them
QParamsCall ==
    /\ pc = "idle"
    /\ \E fn \in {"get_data", "get_metadata"}, variable \in {"streamflow", "wtd"},
          options \in OptionDicts :
         /\ call' = [fn |-> "q_params", data_type |-> DataTypeOf(fn),
                      data_source |-> "usgs_nwis", variable |-> variable,
                      temporal_resolution |-> "daily", aggregation |-> "average",
                      options |-> options]
         /\ ret' = Return(get_q_params(DataTypeOf(fn), "usgs_nwis", variable, "daily",
                                       "average", options))
    /\ pc' = "done"
    /\ UNCHANGED <<run_remote, local_vars, remote_vars, log>>

(* get_data and get_metadata, local mode: HYDRODATA exists *)

\* lines 74-92 and 136-154: the mode is decided, the options are converted
\* (they are passed typed here, so the conversion changes none), the
\* connection is opened
LocalCall ==
    /\ pc = "idle"
    /\ \E fn \in {"get_data", "get_metadata"}, r \in Requests,
          ds \in DateInputs, de \in DateInputs, f \in SiteFilters, mno \in MinNumObsInputs :
         call' = ApiCall(fn, r, Kwargs(r.depth_level, ds, de, f, mno))
    /\ run_remote' = FALSE
    /\ conn' = "open"
    /\ log' = Append(log, Ev("connect", "point_obs.sqlite", Absent))
    /\ pc' = IF call'.fn = "get_data" THEN "check_inputs" ELSE "get_sites"
    /\ UNCHANGED <<ret, var_id, sites_df, store, remote_vars>>

\* line 95
LocalCheckInputs ==
    /\ pc = "check_inputs"
    /\ LET r == check_inputs(call.data_source, call.variable, call.temporal_resolution,
                             call.aggregation, call.kwargs)
       IN  /\ ret' = r
           /\ pc' = IF r.exc # "None" THEN "done" ELSE "get_var_id"
    /\ log' = Append(log, Ev("validate", "check_inputs", Absent))
    /\ UNCHANGED <<call, run_remote, local_vars, remote_vars>>

\* line 98
LocalGetVarId ==
    /\ pc = "get_var_id"
    /\ LET r == get_var_id(call.data_source, call.variable, call.temporal_resolution,
                           call.aggregation, call.kwargs)
       IN  /\ ret' = IF r.exc # "None" THEN r ELSE ret
           /\ var_id' = IF r.exc # "None" THEN var_id ELSE Some(r.val)
           /\ pc' = IF r.exc # "None" THEN "done" ELSE "get_sites"
    /\ log' = Append(log, Ev("sql", "variables", Absent))
    /\ UNCHANGED <<call, run_remote, conn, sites_df, store, remote_vars>>

\* the test for an empty list of sites left out
ZeroSitesNeverRaised(fn, r) == FALSE

\* lines 104-105 of get_data: if len(sites_df) == 0: raise ValueError
ZeroSitesRaised(fn, r) == r.exc = "None" /\ fn = "get_data" /\ Len(r.val) = 0

\* lines 101-105 of get_data, 156-157 of get_metadata.  get_sites resolves
\* the variable again and then queries the catalog; get_data raises
\* ValueError for an empty result
LocalGetSites ==
    /\ pc = "get_sites"
    /\ LET v == get_var_id(call.data_source, call.variable, call.temporal_resolution,
                           call.aggregation, call.kwargs)
           r == get_sites(call.data_source, call.variable, call.temporal_resolution,
                          call.aggregation, call.kwargs)
           empty == ZeroSitesRaised(call.fn, r)
       IN  /\ log' = IF r.exc = "None"
                     THEN log \o <<Ev("sql", "variables", Absent), Ev("sql", "sites", Absent)>>
                     ELSE IF v.exc = "KeyError" THEN log
                     ELSE Append(log, Ev("sql", "variables", Absent))
           /\ ret' = IF r.exc # "None" THEN r
                     ELSE IF empty THEN Raise("ValueError")
                     ELSE ret
           /\ sites_df' = IF r.exc # "None" \/ empty THEN sites_df ELSE r.val
           /\ pc' = IF r.exc # "None" \/ empty THEN "done"
                    ELSE IF call.fn = "get_data" THEN "get_values"
                    ELSE "attributes"
    /\ UNCHANGED <<call, run_remote, conn, var_id, store, remote_vars>>

\* the first test taking var_id 5 as well
IsArrayBackedIncludingFive(v) == v \in 1..24

\* line 110: (var_id in (1, 2, 3, 4)) | (var_id in range(6, 25))
IsArrayBacked(v) == v \in (1..4) \cup (6..24)

\* line 113
IsSqlBacked(v) == v = 5

\* lines 108-111 and 116-118: the array-backed variables.  reset_index()
\* followed by drop('index') leaves columns and cells as they are
LocalGetDataNc ==
    /\ pc = "get_values"
    /\ IsArrayBacked(Val(var_id))
    /\ LET site_list == SiteIds(sites_df)
       IN  /\ \E files \in NcFiles(site_list, Val(var_id)) :
                 /\ store' = Some(files)
                 /\ ret' = Return(get_data_nc(site_list, Val(var_id), call.kwargs, files))
           /\ log' = log \o [i \in 1..Len(site_list) |->
                                Ev("open_dataset", site_list[i], Absent)]
    /\ conn' = "closed"
    /\ pc' = "done"
    /\ UNCHANGED <<call, run_remote, var_id, sites_df, remote_vars>>

\* lines 108, 113-114 and 116-118: the SQL-backed variable
LocalGetDataSql ==
    /\ pc = "get_values"
    /\ ~IsArrayBacked(Val(var_id)) /\ IsSqlBacked(Val(var_id))
    /\ \E table \in WtdTables :
         /\ store' = Some(table)
         /\ ret' = Return(get_data_sql(table, Val(var_id), call.kwargs))
    /\ log' = Append(log, Ev("sql", "wtd_discrete_data", Absent))
    /\ conn' = "closed"
    /\ pc' = "done"
    /\ UNCHANGED <<call, run_remote, var_id, sites_df, remote_vars>>

\* lines 159-191 of get_metadata: huc8 and the attribute tables.  The test
\* of line 178 is `'SNOTEL station' or ...`, a non-empty string: true
AttributeTables ==
    <<"streamgauge_attributes", "well_attributes",
      "snotel_station_attributes", "flux_tower_attributes">>

JoinedTables(site_types) ==
    SelectSeq(AttributeTables,
              LAMBDA t : \/ t = "streamgauge_attributes" /\ "stream gauge" \in site_types
                         \/ t = "well_attributes" /\ "groundwater well" \in site_types
                         \/ t = "snotel_station_attributes"
                         \/ t = "flux_tower_attributes" /\ "flux tower" \in site_types)

LocalAttributes ==
    /\ pc = "attributes"
    /\ LET joined == JoinedTables({sites_df[i].site_type : i \in 1..Len(sites_df)})
           unclean == \E i \in 1..Len(sites_df) : clean_huc(sites_df[i].huc).exc # "None"
       IN  /\ ret' = IF unclean THEN Raise("UnboundLocalError")
                     ELSE Return([rows |-> [i \in 1..Len(sites_df) |->
                                               [site_id |-> sites_df[i].site_id,
                                                site_type |-> sites_df[i].site_type,
                                                huc8 |-> clean_huc(sites_df[i].huc).val]],
                                  joined |-> joined])
           /\ log' = IF unclean THEN log
                     ELSE log \o [i \in 1..Len(joined) |-> Ev("sql", joined[i], Absent)]
           /\ conn' = IF unclean THEN conn ELSE "closed"
    /\ pc' = "done"
    /\ UNCHANGED <<call, run_remote, var_id, sites_df, store, remote_vars>>

(* get_data and get_metadata, remote mode: HYDRODATA does not exist *)

\* the options of a remote request: none, the test's (dates and a
\* bounding box), a state with min_num_obs
RemoteOptions ==
    {Kwargs(Absent, Absent, Absent, NoFilter, Absent),
     Kwargs(Absent, Some(1), Some(MaxDate),
            SiteFilter(Some(<<45, 46>>), Some(<<-110, -108>>), Absent, Absent, Absent), Absent),
     Kwargs(Absent, Absent, Absent,
            SiteFilter(Absent, Absent, Absent, Some("ME"), Absent), Some(1))}

\* the remote branch running check_inputs before it builds the request
RemoteCallValidating ==
    /\ pc = "idle"
    /\ \E fn \in {"get_data", "get_metadata"}, r \in Requests, kwargs \in RemoteOptions :
         call' = ApiCall(fn, r, [kwargs EXCEPT !.depth_level = r.depth_level])
    /\ q_params' = Some(get_q_params(DataTypeOf(call'.fn), call'.data_source, call'.variable,
                                     call'.temporal_resolution, call'.aggregation,
                                     OptionsOf(call'.kwargs)))
    /\ run_remote' = TRUE
    /\ log' = Append(log, Ev("validate", "check_inputs", Absent))
    /\ pc' = "validate_user"
    /\ UNCHANGED <<ret, local_vars, headers, login_response, data_response, clock>>

\* lines 74-85, 136-147 and 199-206: the mode is decided and the query
\* string of point_data_url is built from the options as they were passed
RemoteCall ==
    /\ pc = "idle"
    /\ \E fn \in {"get_data", "get_metadata"}, r \in Requests, kwargs \in RemoteOptions :
         call' = ApiCall(fn, r, [kwargs EXCEPT !.depth_level = r.depth_level])
    /\ q_params' = Some(get_q_params(DataTypeOf(call'.fn), call'.data_source, call'.variable,
                                     call'.temporal_resolution, call'.aggregation,
                                     OptionsOf(call'.kwargs)))
    /\ run_remote' = TRUE
    /\ pc' = "validate_user"
    /\ UNCHANGED <<ret, local_vars, headers, login_response, data_response, clock, log>>

\* lines 209 and 224 when get_registered_api_pin raises
RemoteNoPin ==
    /\ pc = "validate_user"
    /\ \E pin_file \in PinFiles :
         /\ get_registered_api_pin(pin_file).exc # "None"
         /\ store' = Some(pin_file)
         /\ ret' = get_registered_api_pin(pin_file)
    /\ log' = Append(log, Ev("read", "pin.json", Absent))
    /\ pc' = "done"
    /\ UNCHANGED <<call, run_remote, conn, var_id, sites_df, remote_vars>>

\* lines 209 and 223-246 when it returns: the login call is made.  The
\* clock is read only to compare it with the expiry of a 200 response
RemoteLogin ==
    /\ pc = "validate_user"
    /\ \E pin_file \in PinFiles, response \in LoginResponses, now \in Dates :
         LET r == validate_user(response, now)
             read_clock == ~response.timeout /\ response.status_code = 200
                           /\ Has(response.expires)
         IN  /\ get_registered_api_pin(pin_file).exc = "None"
             /\ store' = Some(pin_file)
             /\ login_response' = Some(response)
             /\ clock' = IF read_clock THEN Some(now) ELSE Absent
             /\ ret' = IF r.exc # "None" THEN r ELSE ret
             /\ headers' = IF r.exc # "None" THEN headers ELSE Some(r.val)
             /\ pc' = IF r.exc # "None" THEN "done" ELSE "data_request"
    /\ log' = log \o <<Ev("read", "pin.json", Absent)>> \o LoginEvents
    /\ UNCHANGED <<call, run_remote, conn, var_id, sites_df, data_response, q_params>>

\* lines 210-220: the data call with the headers of _validate_user
RemoteData ==
    /\ pc = "data_request"
    /\ \E response \in DataResponses :
         /\ data_response' = Some(response)
         /\ ret' = api_result(response)
         /\ log' = log \o DataEvents(headers, response)
    /\ pc' = "done"
    /\ UNCHANGED <<call, run_remote, local_vars, headers, login_response, clock, q_params>>

Next ==
    \/ CheckInputsCall
    \/ GetVarIdCall
    \/ FilterMinNumObsCall
    \/ CleanHucCall
    \/ GetNetworkSiteListCall
    \/ GetRegisteredApiPinCall
    \/ GetCitationsCall
    \/ QParamsCall
    \/ LocalCall
    \/ LocalCheckInputs
    \/ LocalGetVarId
    \/ LocalGetSites
    \/ LocalGetDataNc
    \/ LocalGetDataSql
    \/ LocalAttributes
    \/ RemoteCall
    \/ RemoteNoPin
    \/ RemoteLogin
    \/ RemoteData

Spec == Init /\ [][Next]_vars

----------------------------------------------------------------------------
(* Properties *)

IsApi == call.fn \in {"get_data", "get_metadata"}
Finished == pc = "done"
Failed == Finished /\ ret.exc # "None"

HttpCalls == SelectSeq(log, LAMBDA e : e.op = "http")
LoginCalls == SelectSeq(log, LAMBDA e : e.op = "http" /\ e.target = "api_pins")
DataCalls == SelectSeq(log, LAMBDA e : e.op = "http" /\ e.target = "point-data-app")

\* C1: check_inputs raises exactly when temporal_resolution, variable,
\* aggregation or data_source is not a supported name (3, 12, 8 and 3 of
\* them), or variable is 'soil moisture' and depth_level is absent or not
\* one of 2, 4, 8, 20, 40; otherwise it returns None, whatever depth_level is.
C1_ShouldRaise ==
    \/ call.temporal_resolution \notin {"daily", "hourly", "instantaneous"}
    \/ call.variable \notin SupportedVariables
    \/ call.aggregation \notin SupportedAggregations
    \/ call.data_source \notin {"usgs_nwis", "usda_nrcs", "ameriflux"}
    \/ /\ call.variable = "soil moisture"
       /\ \/ ~Has(call.kwargs.depth_level)
          \/ Val(call.kwargs.depth_level) \notin {2, 4, 8, 20, 40}

C2_Rows ==
    {i \in 1..Len(VariablesTable) :
        /\ VariablesTable[i].data_source = call.data_source
        /\ VariablesTable[i].variable = call.variable
        /\ VariablesTable[i].temporal_resolution = call.temporal_resolution
        /\ VariablesTable[i].aggregation = call.aggregation
        /\ (call.variable = "soil moisture" =>
                VariablesTable[i].depth_level = call.kwargs.depth_level)}

C2_GetVarIdDocumented ==
    call.fn = "get_var_id" =>
        /\ Len(VariablesTable) = 17
        /\ \A i \in 1..17 : VariablesTable[i].var_id = i
        /\ \A i \in C2_Rows : ret = Return(i)
        /\ C2_Rows = {} => ret.exc = "ValueError"

\* C3: on a table with one row per site and one column per date,
\* filter_min_num_obs retains exactly the site rows whose number of
\* non-missing values across the date columns is at least the threshold.
C3_RowCount(df, row) ==
    Cardinality({c \in SeqToSet(df.columns) \ {"site_id"} : row[c] # NaN})

C3_FilterRetainsRows ==
    call.fn = "filter_min_num_obs" =>
        LET kept == SelectSeq(call.df.rows,
                              LAMBDA row : C3_RowCount(call.df, row) >= call.min_num_obs)
        IN  /\ Len(ret.val.rows) = Len(kept)
            /\ \A i \in 1..Len(kept) :
                   /\ "site_id" \in DOMAIN ret.val.rows[i]
                   /\ ret.val.rows[i].site_id = kept[i].site_id

\* C4: in local mode every observation get_data returns belongs to a site
\* of the candidate list get_sites resolved, for both backends.
ObservedSites(df) ==
    IF "site_id" \in SeqToSet(df.columns)
    THEN {Val(df.rows[i].site_id) : i \in 1..Len(df.rows)}
    ELSE SeqToSet(df.columns) \ {"date"}

LocalDataReturned ==
    call.fn = "get_data" /\ ~run_remote /\ Finished /\ ret.exc = "None"

C4_ObservationsOfCandidateSites ==
    LocalDataReturned => ObservedSites(ret.val) \subseteq SeqToSet(SiteIds(sites_df))

\* C5: in remote mode, when the login call and the data call both return
\* status 200 and the body is a pickled dataframe, get_data returns that
\* dataframe unchanged: same columns, same rows, same first site.
RemoteBoth200 ==
    /\ run_remote /\ Finished
    /\ Has(login_response) /\ ~Val(login_response).timeout
    /\ Val(login_response).status_code = 200
    /\ Has(data_response) /\ ~Val(data_response).timeout
    /\ Val(data_response).status_code = 200

C5_RemoteReturnsPayload ==
    (call.fn = "get_data" /\ RemoteBoth200) =>
        \A df \in Payloads :
            Val(data_response).content = Pickle(df) =>
                /\ ret.exc = "None"
                /\ ret.val = df
                /\ ret.val.rows[1]["0"] = df.rows[1]["0"]

C5_Witness ==
    /\ call.fn = "get_data" /\ RemoteBoth200
    /\ Val(data_response).content = Pickle(MockPayload)
    /\ ret.exc = "None"
    /\ ret.val.rows[1]["0"] = Some("01019000")

\* C6: every listed failure of get_data or get_metadata (unsupported
\* parameter value or combination, soil moisture without depth_level, zero
\* matching sites, missing credentials, expired credentials, a non-200
\* response, a timeout) reaches the caller as ValueError.
PinFileUnusable == Has(store) /\ (~Val(store).exists \/ ~Val(store).json)

LoginRejected ==
    Has(login_response) /\
        (Val(login_response).timeout \/ Val(login_response).status_code # 200)

LoginExpired ==
    /\ Has(login_response) /\ ~Val(login_response).timeout
    /\ Val(login_response).status_code = 200
    /\ Has(Val(login_response).expires)
    /\ Has(clock) /\ Val(clock) > Val(Val(login_response).expires)

DataRejected ==
    Has(data_response) /\
        (Val(data_response).timeout \/ Val(data_response).status_code # 200)

ZeroSites ==
    /\ call.fn = "get_data" /\ Failed
    /\ \E i \in 1..Len(log) : log[i].op = "sql" /\ log[i].target = "sites"

C6_ListedFailure ==
    IF run_remote
    THEN PinFileUnusable \/ LoginRejected \/ LoginExpired \/ DataRejected
    ELSE C1_ShouldRaise \/ C2_Rows = {} \/ ZeroSites

C6_SingleErrorKind ==
    (IsApi /\ Failed /\ C6_ListedFailure) => ret.exc = "ValueError"

\* C7, as the spec states it: one remote request issues exactly one
\* outbound HTTP call.
C7_ExactlyOneHttpCall ==
    (IsApi /\ run_remote /\ Finished) => Len(HttpCalls) = 1

\* C7, amended: one remote request issues at most two outbound HTTP calls,
\* one login call and then, when the login is accepted, one data call; a
\* request that returns a dataframe has issued exactly these two, and one
\* whose credentials file is missing or unreadable has issued none.
C7_LoginThenDataCall ==
    (IsApi /\ run_remote) =>
        /\ [i \in 1..Len(HttpCalls) |-> HttpCalls[i].target]
               \in {<<>>, <<"api_pins">>, <<"api_pins", "point-data-app">>}
        /\ (Finished /\ ret.exc = "None") => Len(HttpCalls) = 2
        /\ (Finished /\ PinFileUnusable) => Len(HttpCalls) = 0
        /\ (Finished /\ ~PinFileUnusable) => Len(HttpCalls) >= 1

C7_Witness ==
    /\ call.fn = "get_metadata" /\ run_remote /\ Finished /\ ret.exc = "None"
    /\ Len(HttpCalls) = 2
    /\ HttpCalls[1].target = "api_pins" /\ HttpCalls[2].target = "point-data-app"

C9_NoRetry ==
    (IsApi /\ run_remote) =>
        /\ Len(LoginCalls) <= 1
        /\ Len(DataCalls) <= 1
        /\ LoginRejected => (Finished /\ ret = Raise("ValueError") /\ Len(DataCalls) = 0)
        /\ DataRejected => (Finished /\ ret = Raise("ValueError"))

C9_Witness ==
    /\ call.fn = "get_data" /\ run_remote /\ Finished
    /\ Has(data_response) /\ Val(data_response).status_code = 500
    /\ Len(LoginCalls) = 1 /\ Len(DataCalls) = 1
    /\ ret = Raise("ValueError")

\* C10: without min_num_obs, get_data in local mode behaves as with
\* min_num_obs = 1: a site with no non-missing observation inside the
\* requested window does not appear in the result, for both backends.
WindowObsCount(site) ==
    IF Val(var_id) = 5
    THEN Cardinality({r \in Val(store) : r.site_id = site /\ InWindow(r.date, call.kwargs)})
    ELSE Cardinality({d \in Dates : InWindow(d, call.kwargs) /\ Val(store)[site][d] # NaN})

C10_DefaultMinNumObsIsOne ==
    (LocalDataReturned /\ ~Has(call.kwargs.min_num_obs)) =>
        \A site \in ObservedSites(ret.val) : WindowObsCount(site) >= 1

\* C11: the minimum-observation filter is applied after time filtering:
\* for both backends a site is returned exactly when the number of its
\* observations with date_start <= date <= date_end (bounds inclusive, each
\* optional) is at least min_num_obs, whatever its count over the whole
\* record is, and every returned observation lies inside that window.
C11_InWindow(d) ==
    /\ (Has(call.kwargs.date_start) => Val(call.kwargs.date_start) <= d)
    /\ (Has(call.kwargs.date_end) => d <= Val(call.kwargs.date_end))

C11_Count(site, dates) ==
    IF Val(var_id) = 5
    THEN Cardinality({r \in Val(store) : r.site_id = site /\ r.date \in dates})
    ELSE Cardinality({d \in dates : Val(store)[site][d] # NaN})

C11_Window == {d \in Dates : C11_InWindow(d)}

C11_Sites ==
    IF Val(var_id) = 5 THEN SeqToSet(WellIds) ELSE SeqToSet(SiteIds(sites_df))

C11_ReturnedDates ==
    {Val(ret.val.rows[i].date) :
        i \in {j \in 1..Len(ret.val.rows) : "date" \in DOMAIN ret.val.rows[j]}}

C11_FilterAfterTimeFiltering ==
    LocalDataReturned =>
        /\ C11_ReturnedDates \subseteq C11_Window
        /\ Has(call.kwargs.min_num_obs) =>
               \A site \in C11_Sites :
                   site \in ObservedSites(ret.val)
                       <=> C11_Count(site, C11_Window) >= Val(call.kwargs.min_num_obs)

C11_Witness ==
    /\ LocalDataReturned
    /\ Val(var_id) = 2
    /\ call.kwargs.min_num_obs = Some(2)
    /\ call.kwargs.date_start = Some(2)
    /\ C11_Count("01019000", Dates) = 2
    /\ C11_Count("01019000", C11_Window) = 1
    /\ ObservedSites(ret.val) = {"01027200"}
    /\ C11_ReturnedDates = 2..MaxDate

\* C12, as the spec states it: for an array-backed variable the table has
\* one row per retained site and one column per date of the window; for the
\* SQL-backed variable one row per discrete record.
C12_Threshold(default) ==
    IF Has(call.kwargs.min_num_obs) THEN Val(call.kwargs.min_num_obs) ELSE default

C12_Retained(default) ==
    {site \in C11_Sites : C11_Count(site, C11_Window) >= C12_Threshold(default)}

C12_Records ==
    {r \in Val(store) : r.date \in C11_Window /\ r.site_id \in C12_Retained(1)}

C12_OneRowPerRecord ==
    /\ ret.val.columns = <<"site_id", "date", "wtd", "pumping_status">>
    /\ Len(ret.val.rows) = Cardinality(C12_Records)
    /\ \A r \in C12_Records :
           \E i \in 1..Len(ret.val.rows) :
               /\ ret.val.rows[i].site_id = Some(r.site_id)
               /\ ret.val.rows[i].date = Some(r.date)

C12_WindowSeq == SelectSeq(AllDates, LAMBDA d : C11_InWindow(d))

C12_Columns ==
    SelectSeq(<<"date">> \o SiteIds(sites_df),
              LAMBDA c : IF c = "date" THEN Len(C12_WindowSeq) >= C12_Threshold(0)
                         ELSE c \in C12_Retained(0))

C13_Expected(huc) ==
    CASE Len(huc) < 7 -> <<>>
      [] Len(huc) = 7 -> <<0>> \o huc
      [] Len(huc) = 8 -> huc
      [] Len(huc) = 11 -> SubSeq(<<0>> \o huc, 1, 8)
      [] OTHER -> SubSeq(huc, 1, 8)

C13_CleanHucCases ==
    call.fn = "clean_huc" =>
        /\ ret.exc = "None"
        /\ ret.val = C13_Expected(call.huc)
        /\ Len(ret.val) \in {0, 8}

C13_Witness ==
    /\ call.fn = "clean_huc"
    /\ call.huc = <<1, 2, 3, 4, 5, 6, 7, 8, 9, 0, 1>>
    /\ ret = Return(<<0, 1, 2, 3, 4, 5, 6, 7>>)

\* C14: get_network_site_list returns a list without duplicates that
\* contains exactly the union of the site identifiers of the requested
\* networks, also when they overlap; a network name that is not registered
\* for the data_source and variable raises ValueError and nothing is
\* returned.
C14_AllRegistered ==
    \A i \in 1..Len(call.site_networks) :
        /\ call.data_source = "usgs_nwis"
        /\ \/ /\ call.variable = "streamflow"
              /\ call.site_networks[i] \in {"camels", "gagesii_reference", "gagesii", "hcdn2009"}
           \/ /\ call.variable = "wtd"
              /\ call.site_networks[i] = "climate_response_network"

C14_NetworkSiteListIsUnion ==
    call.fn = "get_network_site_list" =>
        IF C14_AllRegistered
        THEN /\ ret.exc = "None"
             /\ \A i, j \in 1..Len(ret.val) : ret.val[i] = ret.val[j] => i = j
             /\ SeqToSet(ret.val) =
                    UNION {SeqToSet(NetworkCsv(call.site_networks[i])) :
                               i \in 1..Len(call.site_networks)}
        ELSE ret = Raise("ValueError")

C14_Witness ==
    /\ call.fn = "get_network_site_list"
    /\ call.site_networks = <<"camels", "gagesii_reference">>
    /\ ret = Return(<<"01029500", "01019000">>)

\* C15: in local mode get_data raises ValueError when the resolved
\* candidate site list is empty, before any observation value is fetched
\* from a site file or from the relational table.
C15_Fetches ==
    SelectSeq(log, LAMBDA e : \/ e.op = "open_dataset"
                              \/ e.op = "sql" /\ e.target = "wtd_discrete_data")

C15_SitesQueried == \E i \in 1..Len(log) : log[i].op = "sql" /\ log[i].target = "sites"

C15_NoCandidate ==
    LET r == get_sites(call.data_source, call.variable, call.temporal_resolution,
                       call.aggregation, call.kwargs)
    IN  r.exc = "None" /\ Len(r.val) = 0

C15_ZeroSitesRaiseBeforeFetch ==
    (call.fn = "get_data" /\ ~run_remote) =>
        /\ (C15_SitesQueried /\ C15_NoCandidate) =>
               /\ Finished
               /\ ret = Raise("ValueError")
               /\ Len(C15_Fetches) = 0
        /\ Len(C15_Fetches) > 0 => Len(sites_df) > 0

C15_Witness ==
    /\ call.fn = "get_data" /\ ~run_remote /\ Finished
    /\ call.variable = "wtd"
    /\ call.kwargs.state = Some("TX")
    /\ C15_SitesQueried /\ C15_NoCandidate
    /\ ret = Raise("ValueError")
    /\ Len(C15_Fetches) = 0

\* C16: every local-mode request, through get_data and through
\* get_metadata, validates its parameters (check_inputs) before it resolves
\* the variable identifier, and resolves the identifier before it queries
\* the candidate sites; no catalog query is executed for a request whose
\* parameters fail validation.
C16_Before(first(_), second(_)) ==
    \A i \in 1..Len(log) :
        second(log[i]) => \E j \in 1..(i - 1) : first(log[j])

C16_IsValidation(e) == e.op = "validate"
C16_IsQuery(e) == e.op = "sql"
C16_IsVariableLookup(e) == e.op = "sql" /\ e.target = "variables"
C16_IsSiteQuery(e) == e.op = "sql" /\ e.target = "sites"

C16_PipelineOrder ==
    (IsApi /\ ~run_remote) =>
        /\ C16_Before(C16_IsValidation, C16_IsQuery)
        /\ C16_Before(C16_IsVariableLookup, C16_IsSiteQuery)
        /\ C1_ShouldRaise => \A i \in 1..Len(log) : ~C16_IsQuery(log[i])

\* the same order, for get_data alone
C16_PipelineOrderOfGetData ==
    call.fn = "get_data" => C16_PipelineOrder

\* C17: every SQLite connection opened by get_data, get_metadata or
\* get_citations is closed by the time the call returns or raises, on the
\* success path and on every error path.
C17_ConnectionsClosed ==
    (call.fn \in {"get_data", "get_metadata", "get_citations"} /\ Finished) =>
        conn # "open"

\* what does hold: a call of get_data or get_metadata that returns a value
\* has closed its connection
C17_ClosedOnSuccess ==
    (IsApi /\ ~run_remote /\ Finished /\ ret.exc = "None") => conn = "closed"

\* C18: get_registered_api_pin either returns the registered pair
\* (email, pin), both present, or raises ValueError: it raises when the pin
\* file is missing, is not readable as JSON, or holds no email or no pin.
C18_PinOrValueError ==
    call.fn = "get_registered_api_pin" =>
        LET pin_file == Val(store)
        IN  IF /\ pin_file.exists /\ pin_file.json
               /\ Has(pin_file.email) /\ Has(pin_file.pin)
            THEN ret = Return(<<pin_file.email, pin_file.pin>>)
            ELSE ret = Raise("ValueError")

\* what does hold: ValueError for a missing or unreadable file, and the
\* registered pair for a file that holds both
C18_FileMissingOrComplete ==
    call.fn = "get_registered_api_pin" =>
        LET pin_file == Val(store)
        IN  /\ (~pin_file.exists \/ ~pin_file.json) => ret = Raise("ValueError")
            /\ (pin_file.exists /\ pin_file.json /\ Has(pin_file.email) /\ Has(pin_file.pin)) =>
                   ret = Return(<<pin_file.email, pin_file.pin>>)

\* C19: get_citations raises ValueError for a data_source outside
\* {usgs_nwis, usda_nrcs, ameriflux}; it returns a DataFrame of site DOIs
\* only when data_source is 'ameriflux' and site_ids is provided, and
\* nothing for every other supported input.
C19_CitationsReturn ==
    call.fn = "get_citations" =>
        IF call.data_source \notin {"usgs_nwis", "usda_nrcs", "ameriflux"}
        THEN ret = Raise("ValueError")
        ELSE /\ ret.exc = "None"
             /\ Has(ret.val) <=> (call.data_source = "ameriflux" /\ Has(call.site_ids))

\* what does hold: ValueError for an unsupported data_source, nothing
\* without site_ids, the DOIs of the listed sites for 'ameriflux'
C19_CitationsOfAmeriflux ==
    call.fn = "get_citations" =>
        /\ call.data_source \notin {"usgs_nwis", "usda_nrcs", "ameriflux"} =>
               ret = Raise("ValueError")
        /\ (call.data_source \in {"usgs_nwis", "usda_nrcs", "ameriflux"}
               /\ ~Has(call.site_ids)) => ret = Return(Absent)
        /\ (call.data_source = "ameriflux" /\ Has(call.site_ids)) =>
               /\ ret.exc = "None" /\ Has(ret.val)
               /\ \A i \in 1..Len(Val(ret.val).rows) :
                      Val(Val(ret.val).rows[i].site_id) \in SeqToSet(Val(call.site_ids))

\* C20: the storage backend is chosen by the variable identifier alone and
\* exactly one backend is read per request: the relational table is read if
\* and only if var_id = 5, per-site array files are read if and only if
\* var_id is in 1..4 or 6..24, and for every var_id that get_var_id can
\* return get_data either returns a table or raises a documented error.
C20_FileReads == SelectSeq(log, LAMBDA e : e.op = "open_dataset")

C20_TableReads ==
    SelectSeq(log, LAMBDA e : e.op = "sql" /\ e.target = "wtd_discrete_data")

C20_OneBackendByVarId ==
    (call.fn = "get_data" /\ ~run_remote) =>
        /\ Has(var_id) => Val(var_id) \in 1..24
        /\ Len(C20_TableReads) > 0 =>
               /\ var_id = Some(5)
               /\ Len(C20_TableReads) = 1 /\ Len(C20_FileReads) = 0
        /\ Len(C20_FileReads) > 0 =>
               /\ Has(var_id) /\ Val(var_id) \in (1..4) \cup (6..24)
               /\ Len(C20_TableReads) = 0
        /\ (Finished /\ Has(var_id)) =>
               \/ /\ ret.exc = "ValueError"
                  /\ Len(C20_TableReads) = 0 /\ Len(C20_FileReads) = 0
               \/ /\ ret.exc = "None"
                  /\ Val(var_id) = 5 => Len(C20_TableReads) = 1
                  /\ Val(var_id) # 5 =>
                         /\ Len(C20_FileReads) = Len(sites_df)
                         /\ Len(C20_FileReads) >= 1

C20_Witness ==
    /\ call.fn = "get_data" /\ ~run_remote /\ Finished
    /\ var_id = Some(6)
    /\ ret.exc = "None"
    /\ Len(C20_FileReads) = 1 /\ C20_FileReads[1].target = "301:CA:SNTL"
    /\ Len(C20_TableReads) = 0

\* C21: get_metadata queries and merges streamgauge_attributes,
\* well_attributes, snotel_station_attributes and flux_tower_attributes
\* each if and only if the result contains a site of the matching type
\* ('stream gauge', 'groundwater well', 'SNOTEL station' or 'SCAN station',
\* 'flux tower').
C21_MetadataReturned ==
    call.fn = "get_metadata" /\ ~run_remote /\ Finished /\ ret.exc = "None"

C21_SiteTypes == {ret.val.rows[i].site_type : i \in 1..Len(ret.val.rows)}

C21_Queried(table) == \E i \in 1..Len(log) : log[i].op = "sql" /\ log[i].target = table

C21_AttributeTablesAsNeeded ==
    C21_MetadataReturned =>
        /\ C21_Queried("streamgauge_attributes") <=> "stream gauge" \in C21_SiteTypes
        /\ C21_Queried("well_attributes") <=> "groundwater well" \in C21_SiteTypes
        /\ C21_Queried("snotel_station_attributes")
               <=> C21_SiteTypes \cap {"SNOTEL station", "SCAN station"} # {}
        /\ C21_Queried("flux_tower_attributes") <=> "flux tower" \in C21_SiteTypes

\* what does hold: the three other tables are joined as needed, and
\* snotel_station_attributes whenever a station is in the result
C21_OtherTablesAsNeeded ==
    C21_MetadataReturned =>
        /\ C21_Queried("streamgauge_attributes") <=> "stream gauge" \in C21_SiteTypes
        /\ C21_Queried("well_attributes") <=> "groundwater well" \in C21_SiteTypes
        /\ C21_SiteTypes \cap {"SNOTEL station", "SCAN station"} # {}
               => C21_Queried("snotel_station_attributes")
        /\ C21_Queried("flux_tower_attributes") <=> "flux tower" \in C21_SiteTypes

\* C22: get_sites returns exactly the sites that have an observation
\* summary for the resolved var_id with a known first date and that satisfy
\* every supplied filter at once: last available date >= date_start, first
\* available date <= date_end, latitude and longitude inside the inclusive
\* ranges, site_id in site_ids, state equal to state, site_id in the union
\* of the named networks; a filter that is not supplied excludes no site.
C22_VarId == CHOOSE i \in C2_Rows : TRUE

C22_NetworkUnion ==
    UNION {SeqToSet(NetworkCsv(Val(call.kwargs.site_networks)[i])) :
               i \in 1..Len(Val(call.kwargs.site_networks))}

C22_Expected ==
    {s \in SeqToSet(SitesTable) :
        \E o \in ObservationsTable :
            /\ o.site_id = s.site_id /\ o.var_id = C22_VarId
            /\ o.first_date_data_available # Absent
            /\ \/ call.kwargs.date_start = Absent
               \/ o.last_date_data_available[1] >= call.kwargs.date_start[1]
            /\ \/ call.kwargs.date_end = Absent
               \/ o.first_date_data_available[1] <= call.kwargs.date_end[1]
            /\ \/ call.kwargs.latitude_range = Absent
               \/ /\ call.kwargs.latitude_range[1][1] <= s.latitude
                  /\ s.latitude <= call.kwargs.latitude_range[1][2]
            /\ \/ call.kwargs.longitude_range = Absent
               \/ /\ call.kwargs.longitude_range[1][1] <= s.longitude
                  /\ s.longitude <= call.kwargs.longitude_range[1][2]
            /\ \/ call.kwargs.site_ids = Absent
               \/ \E i \in 1..Len(call.kwargs.site_ids[1]) :
                      call.kwargs.site_ids[1][i] = s.site_id
            /\ \/ call.kwargs.state = Absent
               \/ call.kwargs.state = <<s.state>>
            /\ \/ call.kwargs.site_networks = Absent
               \/ s.site_id \in C22_NetworkUnion}

C22_SitesOfAllFilters ==
    (IsApi /\ ~run_remote /\ C15_SitesQueried) =>
        /\ {sites_df[i].site_id : i \in 1..Len(sites_df)}
               = {s.site_id : s \in C22_Expected}
        /\ Len(sites_df) = Cardinality(C22_Expected)

C22_Witness ==
    /\ call.fn = "get_metadata" /\ ~run_remote /\ C15_SitesQueried
    /\ call.variable = "streamflow"
    /\ call.kwargs.date_end = Some(1)
    /\ call.kwargs.latitude_range = Some(<<43, 45>>)
    /\ call.kwargs.longitude_range = Some(<<-70, -68>>)
    /\ SiteIds(sites_df) = <<"01019000">>

\* C23: each call of get_data or get_metadata takes exactly one of two
\* modes, decided per call by whether the HYDRODATA path exists: in remote
\* mode no SQLite connection is opened, no file of the local store is read
\* and no parameter validation runs; in local mode no HTTP request is sent
\* and no credentials file is read.
C23_LogOps == {log[i].op : i \in 1..Len(log)}

C23_OneModePerCall ==
    IsApi =>
        IF run_remote
        THEN /\ conn = "none"
             /\ C23_LogOps \cap {"connect", "sql", "open_dataset", "read_csv", "validate"} = {}
             /\ var_id = Absent /\ sites_df = <<>>
        ELSE /\ C23_LogOps \cap {"http", "read"} = {}
             /\ headers = Absent /\ login_response = Absent /\ data_response = Absent
             /\ q_params = Absent
             /\ log[1].op = "connect"

C23_Witness ==
    /\ call.fn = "get_data" /\ run_remote /\ Finished /\ ret.exc = "None"
    /\ call.variable = "steamflow"
    /\ [i \in 1..Len(log) |-> log[i].op] = <<"read", "http", "http">>
    /\ conn = "none"

\* C24: the query string of a remote request contains exactly one
\* name=value pair for each of data_type, data_source, variable,
\* temporal_resolution and aggregation and for each option whose value is
\* not None, joined by '&'; an option whose value is None is omitted, and
\* data_type is 'data_only' for get_data and 'metadata_only' for
\* get_metadata whatever options the caller passes.
C24_Built == call.fn = "q_params" \/ (IsApi /\ run_remote)

C24_Options == IF call.fn = "q_params" THEN call.options ELSE OptionsOf(call.kwargs)

C24_QueryString == IF call.fn = "q_params" THEN ret.val ELSE Val(q_params)

C24_RequestFields ==
    <<"data_type", "data_source", "variable", "temporal_resolution", "aggregation">>

C24_Names ==
    [i \in 1..Len(C24_Options) |-> C24_Options[i].name]
        \o SelectSeq(C24_RequestFields,
                     LAMBDA n : \A i \in 1..Len(C24_Options) : C24_Options[i].name # n)

C24_Value(name) ==
    CASE name = "data_type" ->
             PyStr(<<IF call.fn = "get_data" THEN "data_only"
                     ELSE IF call.fn = "get_metadata" THEN "metadata_only"
                     ELSE call.data_type>>)
      [] name = "data_source" -> PyStr(<<call.data_source>>)
      [] name = "variable" -> PyStr(<<call.variable>>)
      [] name = "temporal_resolution" -> PyStr(<<call.temporal_resolution>>)
      [] name = "aggregation" -> PyStr(<<call.aggregation>>)
      [] OTHER -> (CHOOSE item \in SeqToSet(C24_Options) : item.name = name).value

C24_Pairs ==
    LET kept == SelectSeq(C24_Names, LAMBDA n : C24_Value(n) # PyNone)
    IN  [i \in 1..Len(kept) |-> <<kept[i], "=">> \o str(C24_Value(kept[i]))]

C24_OnePairPerField ==
    C24_Built => C24_QueryString = Join(C24_Pairs, <<"&">>)

\* what does hold: the same, for the requests none of whose options of
\* the keys converted to text is None
C24_OnePairPerFieldWithoutNone ==
    (C24_Built /\ \A i \in 1..Len(C24_Options) :
                     ~(C24_Options[i].name \in StringifiedKeys
                           /\ C24_Options[i].value = PyNone)) =>
        C24_QueryString = Join(C24_Pairs, <<"&">>)

\* C25: the encoding of a remote request is injective: two requests that
\* differ in a field name or a field value produce different query
\* strings, so no value supplied for one field (for example a state
\* holding '&' or '=') can make the query string equal to that of a request
\* with other or additional fields.
C25_Fields(data_type, variable, options) ==
    {<<"data_type", <<data_type>>>>, <<"variable", <<variable>>>>}
        \cup {<<options[i].name, str(options[i].value)>> :
                  i \in {j \in 1..Len(options) :
                            /\ options[j].value # PyNone
                            /\ options[j].name \notin SeqToSet(C24_RequestFields)}}

C25_HasSeparator(options) ==
    \E i \in 1..Len(options) : SeqToSet(str(options[i].value)) \cap {"&", "="} # {}

C25_SameString(data_type, variable, options) ==
    get_q_params(data_type, call.data_source, variable, call.temporal_resolution,
                 call.aggregation, options) = ret.val

C25_EncodingInjective ==
    call.fn = "q_params" =>
        \A data_type \in {"data_only", "metadata_only"}, variable \in {"streamflow", "wtd"},
           options \in OptionDicts :
            C25_Fields(data_type, variable, options)
                    # C25_Fields(call.data_type, call.variable, call.options)
                => ~C25_SameString(data_type, variable, options)

\* what does hold: requests whose values hold neither '&' nor '=' have
\* different query strings when their fields differ
C25_InjectiveWithoutSeparators ==
    (call.fn = "q_params" /\ ~C25_HasSeparator(call.options)) =>
        \A data_type \in {"data_only", "metadata_only"}, variable \in {"streamflow", "wtd"},
           options \in OptionDicts :
            (/\ ~C25_HasSeparator(options)
             /\ C25_Fields(data_type, variable, options)
                    # C25_Fields(call.data_type, call.variable, call.options))
                => ~C25_SameString(data_type, variable, options)

====
